---------------------------- MODULE Spec2Model ----------------------------
(***************************************************************************)
(* A model of pyinfra_cli/inventory.py: the classification of an inventory *)
(* descriptor (make_inventory), the definition-file loader                 *)
(* (_get_groups_from_filename), the function-based resolver                *)
(* (make_inventory_from_func) and the file/list-based resolver and         *)
(* group-data merger (make_inventory_from_files).                          *)
(*                                                                         *)
(* Python strings are sequences of one-character strings, so that split,   *)
(* startswith, endswith, basename and rsplit are computed character by     *)
(* character.  Python dictionaries are functions (data mappings) or        *)
(* sequences of bindings (where insertion order matters).  Dictionaries    *)
(* that the code updates in place live in a heap and are named by index.   *)
(***************************************************************************)
EXTENDS Naturals, Sequences, FiniteSets

VARIABLES
    pc,              \* position of the running call
    inventory,       \* the descriptor string (make_inventory / inventory_filename)
    override_data,   \* [given, keys]: None or the set of keys of the mapping
    cwd,             \* the cwd argument (<<>> when None)
    group_data_directories,  \* the additional group_data directories
    fs,              \* the filesystem: the definition file and the data folders
    net,             \* import, DNS and SSH-config answers of the environment
    groups,          \* local `groups` of make_inventory_from_files (ordered dict)
    all_hosts,       \* local `all_hosts`
    all_data,        \* local `all_data` (a heap reference)
    file_groupname,  \* local `file_groupname` (<<>> when None or empty)
    heap,            \* the dictionaries that are updated in place
    folders,         \* local `possible_group_data_folders`
    fidx,            \* index of the next folder to scan
    group_data,      \* local `group_data` accumulator: ordered dict name -> dict
    ctx_inventory,   \* the ambient inventory context
    ctx_prior,       \* the ambient context before the call
    result,          \* what the call returned
    err,             \* the exception that left the call ("-" when none)
    trace            \* what the classifier attempted, in order

vars == <<pc, inventory, override_data, cwd, group_data_directories, fs, net,
          groups, all_hosts, all_data, file_groupname, heap, folders, fidx,
          group_data, ctx_inventory, ctx_prior, result, err, trace>>

---------------------------------------------------------------------------
(* Bounds of the model *)

\* longest host-list descriptor, in characters
MaxLen == 3
\* most host entries in one definition file (over all its groups)
MaxHosts == 3
\* most groups in one definition file
MaxGroups == 2
\* most elements of a binding's sequence in the loader's input
MaxItems == 2
\* most bindings of a definition file in the loader's input
MaxBindings == 1
\* most host entries returned by a resolver function (over all its groups)
MaxFuncHosts == 2
\* most groups returned by a resolver function
MaxFuncGroups == 2

---------------------------------------------------------------------------
(* Strings, sequences and dictionaries *)

SeqsUpTo(S, n) == UNION {[1..m -> S] : m \in 0..n}

Range(s) == {s[i] : i \in 1..Len(s)}

\* str.startswith(prefix)
StartsWith(s, prefix) ==
    /\ Len(s) >= Len(prefix)
    /\ SubSeq(s, 1, Len(prefix)) = prefix

\* str.endswith(suffix)
EndsWith(s, suffix) ==
    /\ Len(s) >= Len(suffix)
    /\ SubSeq(s, Len(s) - Len(suffix) + 1, Len(s)) = suffix

\* `c in s` for a one-character string c
Contains(s, c) == \E i \in 1..Len(s) : s[i] = c

\* positions of character c in s
Positions(s, c) == {i \in 1..Len(s) : s[i] = c}

Max(S) == CHOOSE x \in S : \A y \in S : y <= x
Min(S) == CHOOSE x \in S : \A y \in S : x <= y

\* str.split(c): the pieces between the occurrences of c, empty pieces kept
RECURSIVE Split(_, _)
SplitDedup(s, c) ==
    IF Positions(s, c) = {} THEN <<s>>
    ELSE LET i == Min(Positions(s, c))
             rest == Split(SubSeq(s, i + 1, Len(s)), c)
             head == SubSeq(s, 1, i - 1)
         IN IF head \in Range(rest) THEN rest ELSE <<head>> \o rest
Split(s, c) ==
    IF Positions(s, c) = {} THEN <<s>>
    ELSE LET i == Min(Positions(s, c))
         IN <<SubSeq(s, 1, i - 1)>> \o Split(SubSeq(s, i + 1, Len(s)), c)

\* os.path.basename(p): what follows the last "/"
Basename(p) ==
    IF Positions(p, "/") = {} THEN p
    ELSE SubSeq(p, Max(Positions(p, "/")) + 1, Len(p))

\* os.path.dirname(p): what precedes the last "/" ("/" itself for a root entry)
Dirname(p) ==
    IF Positions(p, "/") = {} THEN <<>>
    ELSE LET i == Max(Positions(p, "/"))
         IN IF i = 1 THEN <<"/">> ELSE SubSeq(p, 1, i - 1)

\* s.rsplit(".", 1)[0]: what precedes the last "."
RsplitDotFirst(s) ==
    IF Positions(s, ".") = {} THEN s
    ELSE SubSeq(s, 1, Max(Positions(s, ".")) - 1)

\* the process's working directory, against which abspath resolves
PWD == <<"/", "w">>

\* os.path.abspath(p) for the normalised paths of the model
Abspath(p) ==
    IF p = <<>> THEN PWD
    ELSE IF p[1] = "/" THEN p
    ELSE PWD \o <<"/">> \o p

\* os.path.join(a, b) for a relative b
Join(a, b) ==
    IF a = <<>> THEN b
    ELSE IF a[Len(a)] = "/" THEN a \o b
    ELSE a \o <<"/">> \o b

\* dict.update: d with the entries of e, those of e winning
Update(d, e) ==
    [k \in (DOMAIN d) \cup (DOMAIN e) |-> IF k \in DOMAIN e THEN e[k] ELSE d[k]]

EmptyDict == <<>>

\* position of key in an ordered dict (0 when absent)
IndexOf(bindings, key) ==
    IF \E i \in 1..Len(bindings) : bindings[i].key = key
    THEN CHOOSE i \in 1..Len(bindings) : bindings[i].key = key
    ELSE 0

HasKey(bindings, key) == IndexOf(bindings, key) # 0

\* the ordered dict without key (dict.pop)
RemoveKey(bindings, key) ==
    LET i == IndexOf(bindings, key)
    IN IF i = 0 THEN bindings
       ELSE SubSeq(bindings, 1, i - 1) \o SubSeq(bindings, i + 1, Len(bindings))

\* names used in the inputs
ALL == <<"a", "l", "l">>
GROUP_DATA == <<"g", "r", "o", "u", "p", "_", "d", "a", "t", "a">>
SSH_HOSTNAME == <<"s", "s", "h", "_", "h", "o", "s", "t", "n", "a", "m", "e">>
DOT_PY == <<".", "p", "y">>

---------------------------------------------------------------------------
(* Hosts and groups as Python values *)

\* a host entry: a string, a tuple, or anything else ("int").  For a tuple,
\* f tells what its first element is ("-" for the empty tuple) and m whether
\* it is exactly a (string, mapping) pair.
StrItem(n) == [k |-> "str", n |-> n, f |-> "-", m |-> FALSE]
PairItem(n) == [k |-> "tuple", n |-> n, f |-> "str", m |-> TRUE]
LooseTupleItem(n) == [k |-> "tuple", n |-> n, f |-> "str", m |-> FALSE]
IntTupleItem == [k |-> "tuple", n |-> <<>>, f |-> "int", m |-> FALSE]
EmptyTupleItem == [k |-> "tuple", n |-> <<>>, f |-> "-", m |-> FALSE]
IntItem == [k |-> "int", n |-> <<>>, f |-> "-", m |-> FALSE]

\* a group value: a list of hosts, a tuple, or anything else ("other").  For
\* a tuple, sh is its shape: "empty" (), "one" (hosts,), "pair" (hosts, x),
\* "intfirst" (1, x); d is the heap reference of x when x is a dict, 0 when
\* x is not a dict.
ListValue(hosts) == [k |-> "list", hosts |-> hosts, sh |-> "-", d |-> 0]
PairValue(hosts, d) == [k |-> "tuple", hosts |-> hosts, sh |-> "pair", d |-> d]
OneValue(hosts) == [k |-> "tuple", hosts |-> hosts, sh |-> "one", d |-> 0]
EmptyTupleValue == [k |-> "tuple", hosts |-> <<>>, sh |-> "empty", d |-> 0]
IntFirstValue == [k |-> "tuple", hosts |-> <<>>, sh |-> "intfirst", d |-> 0]
OtherValue == [k |-> "other", hosts |-> <<>>, sh |-> "-", d |-> 0]

\* ALLOWED_HOST_TYPES = (str, tuple)
ALLOWED_HOST_TYPES == {"str", "tuple"}

\* _get_any_tuple_first raises IndexError on the empty tuple
TupleFirstRaises(item) == item.k = "tuple" /\ item.f = "-"

\* _get_any_tuple_first(item): item[0] of a tuple, the item itself otherwise
GetAnyTupleFirst(item) ==
    IF item.k = "tuple"
    THEN IF item.f = "str" THEN StrItem(item.n) ELSE IntItem
    ELSE item

---------------------------------------------------------------------------
(* The definition-file loader *)

\* _is_inventory_group(key, value): "accept", "reject", or the exception
IsInventoryGroup(key, value) ==
    IF StartsWith(key, <<"_", "_">>) THEN "reject"
    ELSE IF StartsWith(key, <<"_">>) THEN "reject"
    ELSE IF value.k \notin {"list", "tuple"} THEN "reject"
    ELSE IF value.k = "tuple" /\ value.sh = "empty" THEN "IndexError"
    ELSE IF value.k = "tuple" /\ value.sh = "intfirst" THEN "TypeError"
    ELSE IF \A i \in 1..Len(value.hosts) : value.hosts[i].k \in ALLOWED_HOST_TYPES
         THEN "accept"
    ELSE "reject"

\* the bindings a dict comprehension keeps, in order
RECURSIVE Accepted(_)
Accepted(bindings) ==
    IF bindings = <<>> THEN <<>>
    ELSE IF IsInventoryGroup(bindings[1].key, bindings[1].val) = "accept"
         THEN <<bindings[1]>> \o Accepted(Tail(bindings))
    ELSE Accepted(Tail(bindings))

\* the first exception the comprehension meets ("-" when none)
FirstRaise(bindings) ==
    LET bad == {i \in 1..Len(bindings) :
                  IsInventoryGroup(bindings[i].key, bindings[i].val)
                      \in {"IndexError", "TypeError"}}
    IN IF bad = {} THEN "-"
       ELSE IsInventoryGroup(bindings[Min(bad)].key, bindings[Min(bad)].val)

\* _get_groups_from_filename(file): [err, groups]
GetGroupsFromFilename(file) ==
    IF file.fails THEN [err |-> "ExecError", groups |-> <<>>]
    ELSE IF FirstRaise(file.bindings) # "-"
         THEN [err |-> FirstRaise(file.bindings), groups |-> <<>>]
    ELSE [err |-> "-", groups |-> Accepted(file.bindings)]


---------------------------------------------------------------------------
(* The group-data directory scanner *)

\* the bindings of a data file that _get_group_data keeps: those in __all__
\* when the file has one, and none that starts with two underscores
FileData(df) ==
    LET keys == IF df.exports.given THEN df.exports.keys ELSE DOMAIN df.attrs
        kept == {k \in DOMAIN df.attrs : k \in keys /\ ~StartsWith(k, <<"_", "_">>)}
    IN [k \in kept |-> df.attrs[k]]

\* the files _get_group_data looks at: the path itself, or the directory's
\* entries joined to it
CandidateFiles(entry) ==
    IF entry.isfile THEN <<[path |-> entry.key, df |-> entry.files[1]]>>
    ELSE [i \in 1..Len(entry.files) |->
            [path |-> Join(entry.key, entry.files[i].name), df |-> entry.files[i]]]

\* group_data[group_name] = {...} on an ordered dict
SetKey(bindings, key, val) ==
    IF HasKey(bindings, key)
    THEN [bindings EXCEPT ![IndexOf(bindings, key)].val = val]
    ELSE Append(bindings, [key |-> key, val |-> val])

\* the loop over the candidate files: [err, data]
RECURSIVE ScanFiles(_, _)
ScanFiles(files, acc) ==
    IF files = <<>> THEN [err |-> "-", data |-> acc]
    ELSE IF ~EndsWith(files[1].path, DOT_PY) THEN ScanFiles(Tail(files), acc)
    ELSE IF files[1].df.fails THEN [err |-> "ExecError", data |-> <<>>]
    ELSE LET base == Basename(files[1].path)
             group_name == SubSeq(base, 1, Len(base) - 3)
         IN ScanFiles(Tail(files), SetKey(acc, group_name, FileData(files[1].df)))

\* _get_group_data(dirname_or_filename): [err, data], data an ordered dict
\* from group name to data mapping
GetGroupData(dirs, dirname_or_filename) ==
    IF ~HasKey(dirs, dirname_or_filename) THEN [err |-> "-", data |-> <<>>]
    ELSE ScanFiles(CandidateFiles(dirs[IndexOf(dirs, dirname_or_filename)]), <<>>)

---------------------------------------------------------------------------
(* make_inventory_from_files *)

NoResult == [kind |-> "none", all_hosts |-> <<>>, all_data |-> 0, groups |-> <<>>]

\* the hosts of a non-existing descriptor: the descriptor split on commas
HostsOfDescriptor(descriptor) ==
    LET names == Split(descriptor, ",")
    IN [i \in 1..Len(names) |-> StrItem(names[i])]

\* file_groupname = path.basename(inventory_filename).rsplit(".", 1)[0]
FileGroupname(inventory_filename) == RsplitDotFirst(Basename(inventory_filename))

\* lines 249-263: the groups of a host list, or of the definition file
FilesLoadGroups ==
    /\ pc = "files_start"
    /\ IF ~fs.exists
       THEN /\ groups' = <<[key |-> ALL, val |-> ListValue(HostsOfDescriptor(inventory))]>>
            /\ file_groupname' = <<>>
            /\ pc' = "files_all"
            /\ UNCHANGED <<heap, err>>
       ELSE LET r == GetGroupsFromFilename(fs.file)
            IN IF r.err # "-"
               THEN /\ pc' = "raised"
                    /\ err' = r.err
                    /\ UNCHANGED <<groups, file_groupname, heap>>
               ELSE /\ groups' = r.groups
                    /\ file_groupname' = FileGroupname(inventory)
                    /\ heap' = fs.file.heap
                    /\ pc' = "files_all"
                    /\ UNCHANGED err
    /\ UNCHANGED <<inventory, override_data, cwd, group_data_directories, fs, net,
                   all_hosts, all_data, folders, fidx, group_data, ctx_inventory,
                   ctx_prior, result, trace>>

\* every host entry of every group, in the order the groups are iterated
RECURSIVE Concat(_)
Concat(gs) == IF gs = <<>> THEN <<>> ELSE gs[1].val.hosts \o Concat(Tail(gs))

RECURSIVE BareNames(_)
BareNames(items) ==
    IF items = <<>> THEN <<>>
    ELSE <<GetAnyTupleFirst(items[1])>> \o BareNames(Tail(items))

\* lines 275-284: append each host name that is not in all_hosts yet
RECURSIVE UnionFirstSeen(_, _)
UnionFirstSeen(acc, items) ==
    IF items = <<>> THEN acc
    ELSE LET hostname == GetAnyTupleFirst(items[1])
         IN UnionFirstSeen(IF hostname \in Range(acc) THEN acc ELSE Append(acc, hostname),
                           Tail(items))

SynthesizeAllNoDedup(gs) == BareNames(Concat(gs))
SynthesizeAll(gs) == UnionFirstSeen(<<>>, Concat(gs))

\* line 289: the filename group is added when it is set and not defined
ApplyFileGroupAlways(gs, name, hosts) ==
    IF name # <<>> THEN SetKey(gs, name, ListValue(hosts)) ELSE gs
ApplyFileGroup(gs, name, hosts) ==
    IF name # <<>> /\ ~HasKey(gs, name)
    THEN Append(gs, [key |-> name, val |-> ListValue(hosts)])
    ELSE gs

\* lines 265-290: resolve `all`, re-insert it, apply the filename group
FilesResolveAll ==
    /\ pc = "files_all"
    /\ IF HasKey(groups, ALL)
       THEN LET v == groups[IndexOf(groups, ALL)].val
                rest == RemoveKey(groups, ALL)
            IN IF v.k = "tuple" /\ v.sh # "pair"
               THEN \* all_hosts, all_data = all_hosts
                    /\ pc' = "raised"
                    /\ err' = "ValueError"
                    /\ UNCHANGED <<groups, all_hosts, all_data, heap>>
               ELSE LET fresh == Len(heap) + 1
                        data == IF v.k = "tuple" THEN v.d ELSE fresh
                        withAll == Append(rest, [key |-> ALL, val |-> PairValue(v.hosts, data)])
                    IN /\ all_hosts' = v.hosts
                       /\ all_data' = data
                       /\ heap' = IF v.k = "tuple" THEN heap ELSE Append(heap, EmptyDict)
                       /\ groups' = ApplyFileGroup(withAll, file_groupname, v.hosts)
                       /\ pc' = "files_fake"
                       /\ UNCHANGED err
       ELSE IF \E i \in 1..Len(Concat(groups)) : TupleFirstRaises(Concat(groups)[i])
            THEN /\ pc' = "raised"
                 /\ err' = "IndexError"
                 /\ UNCHANGED <<groups, all_hosts, all_data, heap>>
            ELSE LET fresh == Len(heap) + 1
                     hosts == SynthesizeAll(groups)
                     withAll == Append(groups, [key |-> ALL, val |-> PairValue(hosts, fresh)])
                 IN /\ all_hosts' = hosts
                    /\ all_data' = fresh
                    /\ heap' = Append(heap, EmptyDict)
                    /\ groups' = ApplyFileGroup(withAll, file_groupname, hosts)
                    /\ pc' = "files_fake"
                    /\ UNCHANGED err
    /\ UNCHANGED <<inventory, override_data, cwd, group_data_directories, fs, net,
                   file_groupname, folders, fidx, group_data, ctx_inventory,
                   ctx_prior, result, trace>>

\* lines 306-314: the folders to scan, in order
PossibleGroupDataFolders(inventory_filename, cwd_, dirs) ==
    LET inventory_dirname == Abspath(Dirname(inventory_filename))
    IN (IF cwd_ # <<>> THEN <<Join(cwd_, GROUP_DATA)>> ELSE <<>>)
       \o (IF inventory_dirname # cwd_ THEN <<Join(inventory_dirname, GROUP_DATA)>> ELSE <<>>)
       \o dirs

\* ctx_inventory.use(value): entering sets the context, leaving restores the
\* value it had on entry
CtxUseEnter(value) == value
CtxUseExit(old_value) == old_value

\* lines 297-318: the fake inventory becomes the ambient inventory
FilesEnterContext ==
    /\ pc = "files_fake"
    /\ folders' = PossibleGroupDataFolders(inventory, cwd, group_data_directories)
    /\ fidx' = 1
    /\ group_data' = <<>>
    /\ ctx_inventory' = CtxUseEnter("fake_inventory")
    /\ pc' = "files_scan"
    /\ UNCHANGED <<inventory, override_data, cwd, group_data_directories, fs, net,
                   groups, all_hosts, all_data, file_groupname, heap, ctx_prior,
                   result, err, trace>>

\* line 321: group_data[group_name].update(data) for each scanned group
RECURSIVE MergeInto(_, _)
MergeInto(acc, scanned) ==
    IF scanned = <<>> THEN acc
    ELSE LET name == scanned[1].key
             old == IF HasKey(acc, name) THEN acc[IndexOf(acc, name)].val ELSE EmptyDict
         IN MergeInto(SetKey(acc, name, Update(old, scanned[1].val)), Tail(scanned))

\* the context on the exit of the with block when a data file raised
ContextAfterRaiseLeaked(prior) == "fake_inventory"
ContextAfterRaise(prior) == CtxUseExit(prior)

\* lines 319-322: scan one folder; an exception leaves the with block
FilesScanFolder ==
    /\ pc = "files_scan"
    /\ fidx <= Len(folders)
    /\ LET r == GetGroupData(fs.dirs, folders[fidx])
       IN IF r.err # "-"
          THEN /\ ctx_inventory' = ContextAfterRaise(ctx_prior)
               /\ pc' = "raised"
               /\ err' = r.err
               /\ UNCHANGED <<fidx, group_data>>
          ELSE /\ group_data' = MergeInto(group_data, r.data)
               /\ fidx' = fidx + 1
               /\ UNCHANGED <<ctx_inventory, pc, err>>
    /\ UNCHANGED <<inventory, override_data, cwd, group_data_directories, fs, net,
                   groups, all_hosts, all_data, file_groupname, heap, folders,
                   ctx_prior, result, trace>>

\* line 318, normal exit of the with block
FilesExitContext ==
    /\ pc = "files_scan"
    /\ fidx > Len(folders)
    /\ ctx_inventory' = CtxUseExit(ctx_prior)
    /\ pc' = "files_attach"
    /\ UNCHANGED <<inventory, override_data, cwd, group_data_directories, fs, net,
                   groups, all_hosts, all_data, file_groupname, heap, folders, fidx,
                   group_data, ctx_prior, result, err, trace>>

\* lines 325-335: attach the collected data to each group, in order.  A list
\* group gets a new dict; a (hosts, data) group keeps its own dict, which
\* data.update changes in place.
RECURSIVE AttachLoop(_, _, _, _)
AttachLoop(i, gs, h, acc) ==
    IF i > Len(gs) THEN [err |-> "-", groups |-> gs, heap |-> h, acc |-> acc]
    ELSE LET v == gs[i].val
             name == gs[i].key
         IN IF v.k = "tuple" /\ v.sh # "pair"
            THEN [err |-> "ValueError", groups |-> gs, heap |-> h, acc |-> acc]
            ELSE LET h1 == IF v.k = "tuple" THEN h ELSE Append(h, EmptyDict)
                     ref == IF v.k = "tuple" THEN v.d ELSE Len(h) + 1
                     gs1 == [gs EXCEPT ![i].val = PairValue(v.hosts, ref)]
                 IN IF HasKey(acc, name)
                    THEN IF ref = 0
                         THEN [err |-> "AttributeError", groups |-> gs, heap |-> h,
                               acc |-> acc]
                         ELSE AttachLoop(i + 1, gs1,
                                  [h1 EXCEPT ![ref] = Update(h1[ref], acc[IndexOf(acc, name)].val)],
                                  RemoveKey(acc, name))
                    ELSE AttachLoop(i + 1, gs1, h1, acc)

\* lines 340-341: a group with no hosts for each name left in group_data
RECURSIVE Leftover(_, _, _)
Leftover(gs, h, acc) ==
    IF acc = <<>> THEN [groups |-> gs, heap |-> h]
    ELSE Leftover(SetKey(gs, acc[1].key, PairValue(<<>>, Len(h) + 1)),
                  Append(h, acc[1].val), Tail(acc))

\* lines 324-343: attach the data and construct the Inventory
FilesAttachData ==
    /\ pc = "files_attach"
    /\ LET a == AttachLoop(1, groups, heap, group_data)
       IN IF a.err # "-"
          THEN /\ pc' = "raised"
               /\ err' = a.err
               /\ UNCHANGED <<groups, heap, group_data, result>>
          ELSE LET l == Leftover(a.groups, a.heap, a.acc)
                   allv == l.groups[IndexOf(l.groups, ALL)].val
               IN /\ groups' = RemoveKey(l.groups, ALL)
                  /\ heap' = l.heap
                  /\ group_data' = a.acc
                  /\ result' = [kind |-> "Inventory", all_hosts |-> allv.hosts,
                                all_data |-> allv.d, groups |-> RemoveKey(l.groups, ALL)]
                  /\ pc' = "done"
                  /\ UNCHANGED err
    /\ UNCHANGED <<inventory, override_data, cwd, group_data_directories, fs, net,
                   all_hosts, all_data, file_groupname, folders, fidx,
                   ctx_inventory, ctx_prior, trace>>

NextFiles ==
    \/ FilesLoadGroups
    \/ FilesResolveAll
    \/ FilesEnterContext
    \/ FilesScanFolder
    \/ FilesExitContext
    \/ FilesAttachData

---------------------------------------------------------------------------
(* make_inventory_from_func *)

\* the orders in which list(set) may enumerate the combined host set
Orderings(S) ==
    {o \in [1..Cardinality(S) -> S] : \A i, j \in 1..Cardinality(S) : o[i] = o[j] => i = j}

\* lines 214-227: the first exception among the hosts of one group
RECURSIVE HostsError(_)
HostsError(hosts) ==
    IF hosts = <<>> THEN "-"
    ELSE IF hosts[1].k \notin ALLOWED_HOST_TYPES THEN "TypeError: invalid host"
    ELSE IF TupleFirstRaises(hosts[1]) THEN "IndexError"
    ELSE IF GetAnyTupleFirst(hosts[1]).k # "str" THEN "TypeError: invalid host name"
    ELSE HostsError(Tail(hosts))

\* lines 203-227: the exception one group raises ("-" when none)
GroupError(v) ==
    IF v.k = "tuple" /\ v.sh \in {"empty", "one"} THEN "ValueError"
    ELSE IF v.k = "tuple" /\ v.d = 0 THEN "TypeError: non-dictionary data"
    ELSE IF v.k = "other" \/ (v.k = "tuple" /\ v.sh = "intfirst")
         THEN "TypeError: not iterable"
    ELSE HostsError(v.hosts)

\* lines 202-229: the loop over the groups: [err, hosts, groups, heap]
RECURSIVE FuncLoop(_, _, _, _)
FuncLoop(gs, combined, out, h) ==
    IF gs = <<>> THEN [err |-> "-", hosts |-> combined, groups |-> out, heap |-> h]
    ELSE LET v == gs[1].val
         IN IF GroupError(v) # "-"
            THEN [err |-> GroupError(v), hosts |-> combined, groups |-> out, heap |-> h]
            ELSE LET h1 == IF v.k = "tuple" THEN h ELSE Append(h, EmptyDict)
                     ref == IF v.k = "tuple" THEN v.d ELSE Len(h) + 1
                 IN FuncLoop(Tail(gs),
                             combined \cup Range(BareNames(v.hosts)),
                             SetKey(out, gs[1].key, PairValue(v.hosts, ref)),
                             h1)

\* lines 184-235
MakeInventoryFromFunc ==
    /\ pc = "func_start"
    /\ LET f == net.func
           l == FuncLoop(f.groups, {}, <<>>, f.heap)
           raised == IF f.raises THEN "CliError: Failed to load inventory function"
                     ELSE IF ~f.isdict THEN "TypeError: did not return a dictionary"
                     ELSE l.err
       IN IF raised # "-"
          THEN /\ pc' = "raised"
               /\ err' = raised
               /\ UNCHANGED <<result, heap>>
          ELSE \E order \in Orderings(l.hosts) :
                  /\ heap' = Append(l.heap, EmptyDict)
                  /\ result' = [kind |-> "Inventory", all_hosts |-> order,
                                all_data |-> Len(l.heap) + 1, groups |-> l.groups]
                  /\ pc' = "done"
                  /\ UNCHANGED err
    /\ UNCHANGED <<inventory, override_data, cwd, group_data_directories, fs, net,
                   groups, all_hosts, all_data, file_groupname, folders, fidx,
                   group_data, ctx_inventory, ctx_prior, trace>>

NextFunc == MakeInventoryFromFunc

---------------------------------------------------------------------------
(* make_inventory *)

\* socket.getaddrinfo(name) succeeds
Resolves(name) == name \in net.dns

\* _get_ssh_alias(maybe_host): [some, name], some FALSE for None
GetSshAlias(maybe_host) ==
    IF ~net.ssh.loaded THEN [some |-> FALSE, name |-> <<>>]
    ELSE IF ~net.ssh.given \/ net.ssh.hostname = maybe_host
         THEN [some |-> FALSE, name |-> <<>>]
    ELSE [some |-> TRUE, name |-> net.ssh.hostname]

\* _resolves_to_host(maybe_host): [res, events]
ResolvesToHostDnsOnly(maybe_host) ==
    [res |-> Resolves(maybe_host), events |-> <<"dns">>]
ResolvesToHost(maybe_host) ==
    IF Resolves(maybe_host) THEN [res |-> TRUE, events |-> <<"dns">>]
    ELSE LET alias == GetSshAlias(maybe_host)
         IN IF ~alias.some \/ alias.name = <<>>
            THEN [res |-> FALSE, events |-> <<"dns", "ssh_alias">>]
            ELSE [res |-> Resolves(alias.name),
                  events |-> <<"dns", "ssh_alias", "dns_alias">>]

\* lines 153-159
IsPathOrHostListOrConnectorNoAt(descriptor, exists, override) ==
    \/ exists
    \/ Contains(descriptor, ",")
    \/ override.given /\ SSH_HOSTNAME \in override.keys
IsPathOrHostListOrConnector(descriptor, exists, override) ==
    \/ exists
    \/ Contains(descriptor, ",")
    \/ Contains(descriptor, "@")
    \/ override.given /\ SSH_HOSTNAME \in override.keys

EmptyInventory == [kind |-> "empty", all_hosts |-> <<>>, all_data |-> 0, groups |-> <<>>]

\* lines 153-181: classify the descriptor and hand it to a resolver
MakeInventory ==
    /\ pc = "make_start"
    /\ IF IsPathOrHostListOrConnector(inventory, fs.exists, override_data)
       THEN /\ trace' = <<"from_files">>
            /\ pc' = "files_start"
            /\ UNCHANGED result
       ELSE IF net.func.found
            THEN /\ trace' = <<"import", "from_func">>
                 /\ pc' = "func_start"
                 /\ UNCHANGED result
            ELSE LET r == ResolvesToHost(inventory)
                 IN IF r.res
                    THEN /\ trace' = <<"import">> \o r.events \o <<"from_files">>
                         /\ pc' = "files_start"
                         /\ UNCHANGED result
                    ELSE /\ trace' = <<"import">> \o r.events \o <<"warn">>
                         /\ result' = EmptyInventory
                         /\ pc' = "done"
    /\ UNCHANGED <<inventory, override_data, cwd, group_data_directories, fs, net,
                   groups, all_hosts, all_data, file_groupname, heap, folders, fidx,
                   group_data, ctx_inventory, ctx_prior, err>>

\* _get_groups_from_filename called on its own
LoadGroups ==
    /\ pc = "loader_start"
    /\ LET r == GetGroupsFromFilename(fs.file)
       IN IF r.err # "-"
          THEN /\ pc' = "raised"
               /\ err' = r.err
               /\ UNCHANGED groups
          ELSE /\ groups' = r.groups
               /\ pc' = "done"
               /\ UNCHANGED err
    /\ UNCHANGED <<inventory, override_data, cwd, group_data_directories, fs, net,
                   all_hosts, all_data, file_groupname, heap, folders, fidx,
                   group_data, ctx_inventory, ctx_prior, result, trace>>

NextLoader == LoadGroups

Next ==
    \/ MakeInventory
    \/ MakeInventoryFromFunc
    \/ NextFiles

---------------------------------------------------------------------------
(* Inputs *)

\* a group-data file: its base name, its top-level bindings, its __all__
\* (when it has one), and whether executing it fails
DataFileOf(name, attrs) ==
    [name |-> name, attrs |-> attrs, exports |-> [given |-> FALSE, keys |-> {}],
     fails |-> FALSE]

KeyK == <<"k">>
KeyJ == <<"j">>
KeyDunder == <<"_", "_", "d">>
GName == <<"g">>
HName == <<"h">>

G_PY == <<"g", ".", "p", "y">>
H_PY == <<"h", ".", "p", "y">>
Z_PY == <<"z", ".", "p", "y">>
N_TXT == <<"n", ".", "t", "x", "t">>

\* the environment of a call that consults neither imports nor the network
NoFunc == [found |-> FALSE, raises |-> FALSE, isdict |-> TRUE, groups |-> <<>>,
           heap |-> <<>>]
NoSsh == [loaded |-> FALSE, given |-> FALSE, hostname |-> <<>>]
NoNet == [func |-> NoFunc, dns |-> {}, ssh |-> NoSsh]

NoFile == [bindings |-> <<>>, heap |-> <<>>, fails |-> FALSE]

\* the locals of a call that has not started
InitLocals ==
    /\ groups = <<>>
    /\ all_hosts = <<>>
    /\ all_data = 0
    /\ file_groupname = <<>>
    /\ heap = <<>>
    /\ folders = <<>>
    /\ fidx = 0
    /\ group_data = <<>>
    /\ result = NoResult
    /\ err = "-"
    /\ trace = <<>>
    /\ ctx_inventory = ctx_prior

\* host-list descriptors: strings over a host character, the comma and "@"
HostListDescriptors == SeqsUpTo({"a", ",", "@"}, MaxLen)

\* the host entries of the definition files
HostItems == {StrItem(<<"a">>), StrItem(<<"b">>), PairItem(<<"b">>)}

GroupNamePool == <<ALL, GName, HName>>

\* the names of a file's groups: positions of the pool, in increasing order
KeyChoices ==
    {ks \in SeqsUpTo(1..Len(GroupNamePool), MaxGroups) :
        \A i \in 1..(Len(ks) - 1) : ks[i] < ks[i + 1]}

\* where a flat host sequence is cut into n consecutive groups
CutChoices(n, len) ==
    IF n = 0 THEN {<<>>}
    ELSE {cuts \in [1..n -> 0..len] :
            /\ cuts[n] = len
            /\ \A i \in 1..(n - 1) : cuts[i] <= cuts[i + 1]}

\* the definition file with groups named by ks, hosts flat cut at cuts, each
\* group a list or a (hosts, data) pair with a dict of its own
DefinitionFile(ks, flat, cuts, kinds) ==
    [bindings |->
        [i \in 1..Len(ks) |->
            LET hosts == SubSeq(flat, (IF i = 1 THEN 0 ELSE cuts[i - 1]) + 1, cuts[i])
            IN [key |-> GroupNamePool[ks[i]],
                val |-> IF kinds[i] = "list" THEN ListValue(hosts)
                        ELSE PairValue(hosts, i)]],
     heap |-> [i \in 1..Len(ks) |-> [k \in {KeyK} |-> 0]],
     fails |-> FALSE]

\* definition files whose loading or resolution fails part of the way
OddFiles ==
    {[bindings |-> <<>>, heap |-> <<>>, fails |-> TRUE],
     [bindings |-> <<[key |-> GName, val |-> OneValue(<<StrItem(<<"a">>)>>)]>>,
      heap |-> <<>>, fails |-> FALSE],
     [bindings |-> <<[key |-> ALL, val |-> OneValue(<<StrItem(<<"a">>)>>)]>>,
      heap |-> <<>>, fails |-> FALSE],
     [bindings |-> <<[key |-> GName, val |-> ListValue(<<EmptyTupleItem>>)]>>,
      heap |-> <<>>, fails |-> FALSE],
     [bindings |-> <<[key |-> GName, val |-> PairValue(<<StrItem(<<"a">>)>>, 0)]>>,
      heap |-> <<>>, fails |-> FALSE],
     [bindings |-> <<[key |-> GName, val |-> EmptyTupleValue]>>,
      heap |-> <<>>, fails |-> FALSE],
     [bindings |-> <<[key |-> GName, val |-> ListValue(<<StrItem(<<"a">>), PairItem(<<"b">>)>>)],
                     [key |-> <<"_", "p">>, val |-> ListValue(<<StrItem(<<"b">>)>>)]>>,
      heap |-> <<>>, fails |-> FALSE]}

\* paths of definition files: stem g with an extension, stem x in a
\* directory, and a dot file (whose rsplit stem is empty)
PathDescriptors ==
    {G_PY, <<"d", "/", "x">>, <<".", "h">>}

CwdC == <<"/", "c">>
DirX == <<"/", "x">>
FileX == <<"/", "y", ".", "p", "y">>

\* contents of a group_data folder: data for g and z (and a file that is
\* not a .py file), or a data file that fails to execute
DirOk(v) ==
    <<DataFileOf(G_PY, [k \in {KeyK} |-> v]),
      DataFileOf(Z_PY, [k \in {KeyK, KeyDunder} |-> v]),
      [DataFileOf(N_TXT, EmptyDict) EXCEPT !.fails = TRUE]>>
DirFail(v) ==
    <<DataFileOf(Z_PY, [k \in {KeyK} |-> v]),
      [DataFileOf(G_PY, EmptyDict) EXCEPT !.fails = TRUE]>>

DirChoices(path, v) ==
    {<<>>,
     <<[key |-> path, isfile |-> FALSE, files |-> DirOk(v)]>>,
     <<[key |-> path, isfile |-> FALSE, files |-> DirFail(v)]>>}

\* the data folders of the filesystem: <cwd>/group_data, the working
\* directory's group_data, a further directory and a further single file
DirLayouts ==
    {c \o p \o x \o <<[key |-> FileX, isfile |-> TRUE,
                       files |-> <<DataFileOf(<<"y", ".", "p", "y">>, [k \in {KeyJ} |-> 4])>>]>> :
        c \in DirChoices(Join(CwdC, GROUP_DATA), 1),
        p \in DirChoices(Join(PWD, GROUP_DATA), 2),
        x \in {<<>>, <<[key |-> DirX, isfile |-> FALSE, files |-> DirOk(3)]>>}}

DefaultDirs ==
    <<[key |-> Join(PWD, GROUP_DATA), isfile |-> FALSE, files |-> DirOk(2)]>>

\* a direct call of make_inventory_from_files on a host list that names no
\* file, with any layout of data folders
InitHostList ==
    /\ inventory \in HostListDescriptors
    /\ cwd \in {<<>>, PWD, CwdC}
    /\ group_data_directories \in {<<>>, <<FileX, DirX>>}
    /\ fs \in {[exists |-> FALSE, file |-> NoFile, dirs |-> d] : d \in DirLayouts}
    /\ ctx_prior \in {"None", "prev_inventory"}

\* ... on a definition file, with the default data folder for the paths
\* outside a directory
InitDefinitionFile ==
    /\ inventory \in PathDescriptors
    /\ cwd = <<>>
    /\ group_data_directories = <<>>
    /\ \E ks \in KeyChoices :
         \E flat \in IF ks = <<>> THEN {<<>>} ELSE SeqsUpTo(HostItems, MaxHosts) :
            \E cuts \in CutChoices(Len(ks), Len(flat)) :
               \E kinds \in [1..Len(ks) -> {"list", "tuple"}] :
                  fs = [exists |-> TRUE, file |-> DefinitionFile(ks, flat, cuts, kinds),
                        dirs |-> IF Dirname(inventory) = <<>> THEN DefaultDirs ELSE <<>>]
    /\ ctx_prior = "None"

\* ... on a definition file that fails part of the way, with any layout
InitOddFile ==
    /\ inventory \in PathDescriptors \cup {<<"a", ",", "a">>}
    /\ cwd \in {<<>>, CwdC}
    /\ group_data_directories \in {<<>>, <<DirX>>}
    /\ fs \in {[exists |-> TRUE, file |-> f, dirs |-> d] :
                  f \in OddFiles, d \in DirLayouts}
    /\ ctx_prior \in {"None", "prev_inventory"}

InitFiles ==
    /\ pc = "files_start"
    /\ override_data = [given |-> FALSE, keys |-> {}]
    /\ net = NoNet
    /\ (InitHostList \/ InitDefinitionFile \/ InitOddFile)
    /\ InitLocals

SpecFiles == InitFiles /\ [][NextFiles]_vars

---------------------------------------------------------------------------
(* Inputs of the loader, of the function resolver and of the classifier *)

\* elements of a binding's sequence: a string, a (string, mapping) pair, a
\* tuple with a string first but no mapping second, a tuple with another
\* first element, the empty tuple, and a value that is neither
LoaderItems ==
    {StrItem(<<"a">>), PairItem(<<"a">>), LooseTupleItem(<<"a">>), IntTupleItem,
     EmptyTupleItem, IntItem}

LoaderValues ==
    {ListValue(hs) : hs \in SeqsUpTo(LoaderItems, MaxItems)}
    \cup {PairValue(hs, d) : hs \in SeqsUpTo(LoaderItems, MaxItems), d \in {0, 1}}
    \cup {EmptyTupleValue, IntFirstValue, OtherValue}

\* the values of the bindings after the first
FurtherValues ==
    {ListValue(<<StrItem(<<"a">>)>>), ListValue(<<IntItem>>), EmptyTupleValue, OtherValue}

LoaderKeys == <<GName, <<"_", "p">>, <<"_", "_", "f">>, HName>>

LoaderKeyChoices ==
    {ks \in SeqsUpTo(1..Len(LoaderKeys), MaxBindings) :
        \A i \in 1..(Len(ks) - 1) : ks[i] < ks[i + 1]}

InitLoader ==
    /\ pc = "loader_start"
    /\ inventory = G_PY
    /\ override_data = [given |-> FALSE, keys |-> {}]
    /\ cwd = <<>>
    /\ group_data_directories = <<>>
    /\ \E ks \in LoaderKeyChoices :
         \E vs \in IF ks = <<>> THEN {<<>>}
                    ELSE {<<v>> \o rest : v \in LoaderValues,
                                          rest \in [1..(Len(ks) - 1) -> FurtherValues]} :
            \E x \in BOOLEAN :
               fs = [exists |-> TRUE,
                     file |-> [bindings |-> [i \in 1..Len(ks) |->
                                               [key |-> LoaderKeys[ks[i]], val |-> vs[i]]],
                               heap |-> <<EmptyDict>>, fails |-> x],
                     dirs |-> <<>>]
    /\ net = NoNet
    /\ ctx_prior = "None"
    /\ InitLocals

SpecLoader == InitLoader /\ [][NextLoader]_vars

\* host entries a resolver function may return
FuncItems ==
    {StrItem(<<"a">>), StrItem(<<"b">>), PairItem(<<"b">>), IntItem, IntTupleItem,
     EmptyTupleItem}

FuncKeyChoices ==
    {ks \in SeqsUpTo(1..Len(GroupNamePool), MaxFuncGroups) :
        \A i \in 1..(Len(ks) - 1) : ks[i] < ks[i + 1]}

FuncValue(kind, hosts, i) ==
    IF kind = "list" THEN ListValue(hosts)
    ELSE IF kind = "pair" THEN PairValue(hosts, i)
    ELSE IF kind = "nondict" THEN PairValue(hosts, 0)
    ELSE IF kind = "one" THEN OneValue(hosts)
    ELSE OtherValue

\* what the function returns when it returns a dictionary
FuncReturn(ks, flat, cuts, kinds) ==
    [found |-> TRUE, raises |-> FALSE, isdict |-> TRUE,
     groups |->
        [i \in 1..Len(ks) |->
            [key |-> GroupNamePool[ks[i]],
             val |-> FuncValue(kinds[i],
                        SubSeq(flat, (IF i = 1 THEN 0 ELSE cuts[i - 1]) + 1, cuts[i]), i)]],
     heap |-> [i \in 1..Len(ks) |-> [k \in {KeyK} |-> 80]]]

InitFunc ==
    /\ pc = "func_start"
    /\ inventory = <<"m", ".", "f">>
    /\ override_data = [given |-> FALSE, keys |-> {}]
    /\ cwd = <<>>
    /\ group_data_directories = <<>>
    /\ fs = [exists |-> FALSE, file |-> NoFile, dirs |-> <<>>]
    /\ \/ net \in {[NoNet EXCEPT !.func = f] :
                      f \in {[NoFunc EXCEPT !.found = TRUE, !.raises = TRUE],
                              [NoFunc EXCEPT !.found = TRUE, !.isdict = FALSE]}}
       \/ \E ks \in FuncKeyChoices :
             \E flat \in IF ks = <<>> THEN {<<>>} ELSE SeqsUpTo(FuncItems, MaxFuncHosts) :
                \E cuts \in CutChoices(Len(ks), Len(flat)) :
                   \E kinds \in [1..Len(ks) -> {"list", "pair", "nondict", "one", "other"}] :
                      net = [NoNet EXCEPT !.func = FuncReturn(ks, flat, cuts, kinds)]
    /\ ctx_prior = "None"
    /\ InitLocals

SpecFunc == InitFunc /\ [][NextFunc]_vars

\* the definition file behind a descriptor that names an existing path
PlainFile ==
    [bindings |-> <<[key |-> GName, val |-> ListValue(<<StrItem(<<"b">>)>>)]>>,
     heap |-> <<>>, fails |-> FALSE]

\* the functions behind a descriptor that names an importable function
PlainFuncs ==
    {[found |-> TRUE, raises |-> FALSE, isdict |-> TRUE,
      groups |-> <<[key |-> GName, val |-> ListValue(<<StrItem(<<"b">>)>>)]>>,
      heap |-> <<>>]}

AliasName == <<"h">>

\* the SSH configuration: not loadable, without a hostname for the
\* descriptor, or with one (the descriptor itself, another name, or empty)
SshChoices(descriptor) ==
    {NoSsh, [loaded |-> TRUE, given |-> FALSE, hostname |-> <<>>]}
    \cup {[loaded |-> TRUE, given |-> TRUE, hostname |-> n] :
             n \in {descriptor, AliasName, <<>>}}

\* a call of make_inventory: any descriptor, naming a path or not, an
\* importable function or not, with any answers of DNS and the SSH
\* configuration (the empty name never resolves)
Init ==
    /\ pc = "make_start"
    /\ inventory \in HostListDescriptors
    /\ override_data \in {[given |-> FALSE, keys |-> {}], [given |-> TRUE, keys |-> {}],
                          [given |-> TRUE, keys |-> {SSH_HOSTNAME}]}
    /\ cwd = <<>>
    /\ group_data_directories = <<>>
    /\ fs \in {[exists |-> FALSE, file |-> NoFile, dirs |-> DefaultDirs],
               [exists |-> TRUE, file |-> PlainFile, dirs |-> DefaultDirs]}
    /\ net \in {[func |-> f, dns |-> d, ssh |-> c] :
                   f \in {NoFunc} \cup PlainFuncs,
                   d \in SUBSET ({inventory, AliasName} \ {<<>>}),
                   c \in SshChoices(inventory)}
    /\ ctx_prior = "None"
    /\ InitLocals

Spec == Init /\ [][Next]_vars

---------------------------------------------------------------------------
(* Inputs for the merging of group data *)

\* the data a definition file gives a group
FileDicts == {EmptyDict, [k \in {KeyK} |-> 0], [k \in {KeyK, KeyJ} |-> 0]}

\* a definition file with groups g and h, each a (hosts, data) pair; r names
\* the dict of h, which is the dict of g when r = 1
DataDefinitionFile(d1, d2, r) ==
    [bindings |-> <<[key |-> GName, val |-> PairValue(<<StrItem(<<"a">>)>>, 1)],
                    [key |-> HName, val |-> PairValue(<<StrItem(<<"b">>)>>, r)]>>,
     heap |-> <<d1, d2>>,
     fails |-> FALSE]

\* contents of a data folder, every value being v: nothing, k for g, j for g
\* and k for h, or k and j for h of which __all__ exports k only
DataDirChoices(path, v) ==
    {<<>>,
     <<[key |-> path, isfile |-> FALSE,
        files |-> <<DataFileOf(G_PY, [k \in {KeyK} |-> v])>>]>>,
     <<[key |-> path, isfile |-> FALSE,
        files |-> <<DataFileOf(G_PY, [k \in {KeyJ} |-> v]),
                    DataFileOf(H_PY, [k \in {KeyK} |-> v])>>]>>,
     <<[key |-> path, isfile |-> FALSE,
        files |-> <<[DataFileOf(H_PY, [k \in {KeyK, KeyJ} |-> v])
                        EXCEPT !.exports = [given |-> TRUE, keys |-> {KeyK}]]>>]>>}

InitData ==
    /\ pc = "files_start"
    /\ inventory = G_PY
    /\ override_data = [given |-> FALSE, keys |-> {}]
    /\ cwd \in {<<>>, PWD, CwdC}
    /\ group_data_directories \in {<<>>, <<DirX>>}
    /\ fs \in {[exists |-> TRUE, file |-> DataDefinitionFile(d1, d2, r),
                dirs |-> c \o p \o x] :
                  d1 \in FileDicts, d2 \in FileDicts, r \in {1, 2},
                  c \in DataDirChoices(Join(CwdC, GROUP_DATA), 1),
                  p \in DataDirChoices(Join(PWD, GROUP_DATA), 2),
                  x \in DataDirChoices(DirX, 3)}
    /\ net = NoNet
    /\ ctx_prior = "None"
    /\ InitLocals

SpecData == InitData /\ [][NextFiles]_vars

---------------------------------------------------------------------------
(* Properties of make_inventory_from_files *)

\* the name of a host entry: the entry itself, or the first element of a tuple
NameOf(item) ==
    IF item.k = "tuple" THEN [k |-> IF item.f = "str" THEN "str" ELSE "int",
                              n |-> item.n, f |-> "-", m |-> FALSE]
    ELSE item

Names(items) == {NameOf(items[i]) : i \in 1..Len(items)}

\* the pieces joined by commas
RECURSIVE JoinComma(_)
JoinComma(pieces) ==
    IF Len(pieces) = 1 THEN pieces[1]
    ELSE pieces[1] \o <<",">> \o JoinComma(Tail(pieces))

\* hosts is the descriptor split on commas: bare strings without a comma
\* that, joined by commas, give the descriptor back
IsCommaSplit(hosts, descriptor) ==
    /\ Len(hosts) >= 1
    /\ \A i \in 1..Len(hosts) : hosts[i].k = "str" /\ ~Contains(hosts[i].n, ",")
    /\ JoinComma([i \in 1..Len(hosts) |-> hosts[i].n]) = descriptor

\* the group names that the .py files of the scanned folders stand for
DataGroupNames ==
    UNION {LET e == fs.dirs[IndexOf(fs.dirs, folders[f])]
               c == CandidateFiles(e)
           IN {SubSeq(Basename(c[i].path), 1, Len(Basename(c[i].path)) - 3) :
                  i \in {j \in 1..Len(c) : EndsWith(c[j].path, DOT_PY)}} :
           f \in {x \in 1..Len(folders) : HasKey(fs.dirs, folders[x])}}

LoadedGroups == GetGroupsFromFilename(fs.file).groups

\* the places (group, position) of the host entries of the loaded groups
Occurrences ==
    {o \in (1..Len(LoadedGroups)) \X (1..MaxHosts + 2) :
        o[2] <= Len(LoadedGroups[o[1]].val.hosts)}

NameAt(o) == NameOf(LoadedGroups[o[1]].val.hosts[o[2]])

Before(o1, o2) == o1[1] < o2[1] \/ (o1[1] = o2[1] /\ o1[2] < o2[2])

FirstOccurrence(x) ==
    CHOOSE o \in Occurrences :
        /\ NameAt(o) = x
        /\ \A o2 \in Occurrences : NameAt(o2) = x => (o = o2 \/ Before(o, o2))

AfterResolveAll == {"files_fake", "files_scan", "files_attach", "done"}

\* C4: when the definition file defines no `all`, the synthesized `all` holds
\* the name of every host of every group, each once, ordered by first
\* occurrence over the groups and then within a group; its data is empty
\* before the group data is merged
C4_SynthesizedAll ==
    (pc \in AfterResolveAll /\ fs.exists /\ ~HasKey(LoadedGroups, ALL)) =>
        /\ Range(all_hosts) = {NameAt(o) : o \in Occurrences}
        /\ \A i \in 1..Len(all_hosts) : \A j \in 1..Len(all_hosts) :
              i < j => /\ all_hosts[i] # all_hosts[j]
                       /\ Before(FirstOccurrence(all_hosts[i]),
                                 FirstOccurrence(all_hosts[j]))
        /\ (pc = "files_fake" => heap[all_data] = EmptyDict)
        /\ (pc = "done" => result.all_hosts = all_hosts)

C4_Witness ==
    /\ pc = "done"
    /\ fs.exists
    /\ Len(LoadedGroups) = 2
    /\ ~HasKey(LoadedGroups, ALL)
    /\ LoadedGroups[1].val.hosts = <<StrItem(<<"b">>)>>
    /\ LoadedGroups[2].val.hosts = <<StrItem(<<"a">>), PairItem(<<"b">>)>>
    /\ result.all_hosts = <<StrItem(<<"b">>), StrItem(<<"a">>)>>

\* C5 as stated: in every constructed inventory `all` holds the name of every
\* host of every other group
C5_AllHoldsEveryHost ==
    (pc = "done" /\ result.kind = "Inventory") =>
        \A i \in 1..Len(result.groups) :
            Names(result.groups[i].val.hosts) \subseteq Names(result.all_hosts)

\* N is the base name without its extension
IsStem(N, base) ==
    \/ ~Contains(base, ".") /\ N = base
    \/ \E k \in 1..Len(base) :
          /\ base[k] = "."
          /\ ~Contains(SubSeq(base, k + 1, Len(base)), ".")
          /\ N = SubSeq(base, 1, k - 1)

Prefixes(s) == {SubSeq(s, 1, k) : k \in 0..Len(s)}

\* the inventory has a group N with these hosts (`all` is its primary group)
HasGroupWithHosts(N, hosts) ==
    IF N = ALL THEN result.all_hosts = hosts
    ELSE /\ HasKey(result.groups, N)
         /\ result.groups[IndexOf(result.groups, N)].val.hosts = hosts

\* C6 as stated: for a definition file with stem N, the inventory has a group
\* N with the hosts of `all` when the file defines no group N, and the file's
\* own group N unchanged when it does
C6_FileGroup ==
    (pc = "done" /\ fs.exists) =>
        \A N \in Prefixes(Basename(inventory)) :
            IsStem(N, Basename(inventory)) =>
                IF HasKey(LoadedGroups, N)
                THEN HasGroupWithHosts(N, LoadedGroups[IndexOf(LoadedGroups, N)].val.hosts)
                ELSE HasGroupWithHosts(N, result.all_hosts)

\* C6 amended: for a definition file with a non-empty stem N, ... (as above)
C6_FileGroupNonEmptyStem ==
    (pc = "done" /\ fs.exists) =>
        \A N \in Prefixes(Basename(inventory)) :
            (IsStem(N, Basename(inventory)) /\ N # <<>>) =>
                IF HasKey(LoadedGroups, N)
                THEN HasGroupWithHosts(N, LoadedGroups[IndexOf(LoadedGroups, N)].val.hosts)
                ELSE HasGroupWithHosts(N, result.all_hosts)

C6_Witness ==
    /\ pc = "done"
    /\ fs.exists
    /\ inventory = G_PY
    /\ HasKey(LoadedGroups, GName)
    /\ HasKey(result.groups, GName)
    /\ result.groups[IndexOf(result.groups, GName)].val.hosts # result.all_hosts
    /\ Len(result.all_hosts) = 2

DataSourceFolders ==
    (IF cwd # <<>> THEN <<Join(cwd, GROUP_DATA)>> ELSE <<>>)
    \o (IF Abspath(Dirname(inventory)) # cwd
        THEN <<Join(Abspath(Dirname(inventory)), GROUP_DATA)>> ELSE <<>>)
    \o group_data_directories

\* the data the definition file itself gives group name
OwnData(name) ==
    IF HasKey(fs.file.bindings, name)
       /\ fs.file.bindings[IndexOf(fs.file.bindings, name)].val.k = "tuple"
    THEN fs.file.heap[fs.file.bindings[IndexOf(fs.file.bindings, name)].val.d]
    ELSE EmptyDict

\* the data a folder gives group name
FolderData(folder, name) ==
    LET d == GetGroupData(fs.dirs, folder).data
    IN IF HasKey(d, name) THEN d[IndexOf(d, name)].val ELSE EmptyDict

\* the sources of the data of group name, first to last
DataSources(name) ==
    <<OwnData(name)>>
    \o [i \in 1..Len(DataSourceFolders) |-> FolderData(DataSourceFolders[i], name)]

Defining(name, key) ==
    {i \in 1..Len(DataSources(name)) : key \in DOMAIN DataSources(name)[i]}

\* the final data of a group of the inventory
FinalData(name) ==
    IF name = ALL THEN heap[result.all_data]
    ELSE heap[result.groups[IndexOf(result.groups, name)].val.d]

\* C9 as stated: the final value of every key of every group is the one of
\* the last source that defines it, the sources being the group's data in the
\* definition file, then the folders in their order; a key that no source of
\* the group defines is not in the group's data
C9_LastSourceWins ==
    (pc = "done") =>
        \A name \in {ALL} \cup {result.groups[i].key : i \in 1..Len(result.groups)} :
            /\ DOMAIN FinalData(name) = {key \in {KeyK, KeyJ} : Defining(name, key) # {}}
            /\ \A key \in DOMAIN FinalData(name) :
                  FinalData(name)[key] = DataSources(name)[Max(Defining(name, key))][key]

\* the same when every group of the definition file has a dict of its own
C9_LastSourceWinsWithoutSharing ==
    (\A i, j \in 1..Len(fs.file.bindings) :
        (i # j /\ fs.file.bindings[i].val.k = "tuple" /\ fs.file.bindings[j].val.k = "tuple")
            => fs.file.bindings[i].val.d # fs.file.bindings[j].val.d)
    => C9_LastSourceWins

---------------------------------------------------------------------------
(* Properties of make_inventory *)

\* the descriptor has one of the forms that select the file/list path
FileOrListForm ==
    \/ fs.exists
    \/ \E i \in 1..Len(inventory) : inventory[i] \in {",", "@"}
    \/ override_data.given /\ SSH_HOSTNAME \in override_data.keys

RoutedToFiles == Len(trace) > 0 /\ trace[Len(trace)] = "from_files"
RoutedToFunc == Len(trace) > 0 /\ trace[Len(trace)] = "from_func"

Attempted(event) == \E i \in 1..Len(trace) : trace[i] = event

\* the inventory is the one make_inventory_from_files builds of a host list
BuiltFromHostList ==
    /\ result.kind = "Inventory"
    /\ IsCommaSplit(result.all_hosts, inventory)

\* the inventory is the one make_inventory_from_files builds of PlainFile
BuiltFromPlainFile ==
    /\ result.kind = "Inventory"
    /\ result.all_hosts = <<StrItem(<<"b">>)>>
    /\ HasKey(result.groups, GName)
    /\ HasKey(result.groups, inventory) \/ inventory = <<>>

\* C1: a descriptor that names an existing path, or contains a comma or an
\* "@", or comes with ssh_hostname in override_data, is resolved by
\* make_inventory_from_files and never by the function path, even when it
\* names an importable function; no import and no hostname resolution is
\* attempted
C1_FileOrListFirst ==
    (pc # "make_start" /\ FileOrListForm) =>
        /\ trace = <<"from_files">>
        /\ ~Attempted("import") /\ ~Attempted("dns") /\ ~Attempted("dns_alias")
        /\ pc \notin {"func_start", "raised"}
        /\ pc = "done" =>
              IF fs.exists THEN BuiltFromPlainFile ELSE BuiltFromHostList

C1_Witness ==
    /\ pc = "done"
    /\ ~fs.exists
    /\ inventory = <<"a", "@", "a">>
    /\ ~override_data.given
    /\ net.func.found
    /\ trace = <<"from_files">>
    /\ result.all_hosts = <<StrItem(<<"a", "@", "a">>)>>

\* the descriptor resolves as a host: DNS succeeds, or the SSH configuration
\* has an alias for it that differs from it and resolves by DNS
ResolvesAsHost ==
    \/ inventory \in net.dns
    \/ /\ net.ssh.loaded
       /\ net.ssh.given
       /\ net.ssh.hostname # inventory
       /\ net.ssh.hostname \in net.dns

\* C2: for a descriptor of none of the forms of C1: an importable function
\* selects the function path and no hostname resolution is attempted;
\* otherwise a descriptor that resolves as a host is handed to
\* make_inventory_from_files as a single bare hostname, the import having
\* been tried first; otherwise an empty inventory is returned with a warning
\* and no exception
C2_FunctionThenHostThenEmpty ==
    (pc # "make_start" /\ ~FileOrListForm) =>
        IF net.func.found
        THEN /\ trace = <<"import", "from_func">>
             /\ pc \in {"func_start", "done", "raised"}
             /\ ~Attempted("dns") /\ ~Attempted("dns_alias")
             /\ pc = "done" => /\ result.kind = "Inventory"
                               /\ Len(result.groups) = Len(net.func.groups)
                               /\ \A i \in 1..Len(result.groups) :
                                     /\ result.groups[i].key = net.func.groups[i].key
                                     /\ result.groups[i].val.hosts =
                                            net.func.groups[i].val.hosts
                               /\ result.all_hosts = <<StrItem(<<"b">>)>>
        ELSE IF ResolvesAsHost
        THEN /\ RoutedToFiles
             /\ trace[1] = "import" /\ trace[2] = "dns"
             /\ pc # "func_start"
             /\ pc = "done" => /\ result.kind = "Inventory"
                               /\ result.all_hosts = <<StrItem(inventory)>>
        ELSE /\ pc = "done"
             /\ err = "-"
             /\ result = EmptyInventory
             /\ trace[1] = "import" /\ trace[2] = "dns"
             /\ trace[Len(trace)] = "warn"

C2_Witness ==
    /\ pc = "done"
    /\ ~FileOrListForm
    /\ ~net.func.found
    /\ inventory = <<"a", "a">>
    /\ inventory \notin net.dns
    /\ net.ssh.hostname = AliasName
    /\ trace = <<"import", "dns", "ssh_alias", "dns_alias", "from_files">>
    /\ result.all_hosts = <<StrItem(<<"a", "a">>)>>

---------------------------------------------------------------------------
(* Properties of the loader and of make_inventory_from_func *)

\* an element is a bare string or a (string, mapping) pair
IsHostElement(item) == item.k = "str" \/ (item.k = "tuple" /\ item.m)

\* a binding is a group: its name has no leading underscore and its value is
\* a sequence, or a (sequence, mapping) pair, of host elements
IsGroupBinding(b) ==
    /\ ~(Len(b.key) > 0 /\ b.key[1] = "_")
    /\ \/ b.val.k = "list"
       \/ b.val.k = "tuple" /\ b.val.sh = "pair" /\ b.val.d # 0
    /\ \A i \in 1..Len(b.val.hosts) : IsHostElement(b.val.hosts[i])

\* C7 as stated: the loader returns exactly the bindings that are groups, a
\* binding with a violating element or another shape is left out as a whole,
\* and rejecting a binding raises nothing (only the failure to execute the
\* file does)
C7_LoaderKeepsExactlyGroups ==
    (pc # "loader_start") =>
        /\ fs.file.fails => (pc = "raised" /\ err = "ExecError")
        /\ ~fs.file.fails =>
              /\ pc = "done"
              /\ Range(groups) = {fs.file.bindings[i] :
                                    i \in {j \in 1..Len(fs.file.bindings) :
                                              IsGroupBinding(fs.file.bindings[j])}}

\* some group carries data that is not a mapping
FuncHasNonMappingData ==
    \E i \in 1..Len(net.func.groups) :
        /\ net.func.groups[i].val.k = "tuple"
        /\ net.func.groups[i].val.sh = "pair"
        /\ net.func.groups[i].val.d = 0

\* some host of some group does not reduce to a string
FuncHasNonStringHost ==
    \E i \in 1..Len(net.func.groups) :
        \E j \in 1..Len(net.func.groups[i].val.hosts) :
            NameOf(net.func.groups[i].val.hosts[j]).k # "str"

TypeErrors ==
    {"TypeError: did not return a dictionary", "TypeError: non-dictionary data",
     "TypeError: invalid host", "TypeError: invalid host name",
     "TypeError: not iterable"}

\* the groups handed to Inventory are the function's, each as (hosts, data)
FuncGroupsKept ==
    /\ Len(result.groups) = Len(net.func.groups)
    /\ \A i \in 1..Len(result.groups) :
          /\ result.groups[i].key = net.func.groups[i].key
          /\ result.groups[i].val.hosts = net.func.groups[i].val.hosts
          /\ result.groups[i].val.sh = "pair"
          /\ heap[result.groups[i].val.d] =
                IF net.func.groups[i].val.k = "tuple"
                THEN net.func.heap[net.func.groups[i].val.d]
                ELSE EmptyDict

\* C8 as stated: make_inventory_from_func raises and constructs nothing when
\* the function raises (CliError), returns no mapping (TypeError), a group
\* carries non-mapping data (TypeError) or a host does not reduce to a string
\* (TypeError); when none of these holds it constructs the Inventory of the
\* per-group (hosts, data) pairs
C8_FuncErrors ==
    (pc # "func_start") =>
        IF net.func.raises
        THEN pc = "raised" /\ err = "CliError: Failed to load inventory function"
                           /\ result.kind = "none"
        ELSE IF ~net.func.isdict
        THEN pc = "raised" /\ err = "TypeError: did not return a dictionary"
                           /\ result.kind = "none"
        ELSE IF FuncHasNonMappingData \/ FuncHasNonStringHost
        THEN pc = "raised" /\ err \in TypeErrors /\ result.kind = "none"
        ELSE pc = "done" /\ result.kind = "Inventory" /\ FuncGroupsKept

===========================================================================
